---- MODULE Spec2Model ----
(***************************************************************************)
(* Chat core of the classifieds backend: the WebSocket relay               *)
(* (websocket.ts: setupWebSocket, the process-wide `clients` map, the      *)
(* 'message' and 'close' handlers) and the get-or-create-conversation      *)
(* route (routes/chat.ts), over a relational store (conversation and       *)
(* message tables).                                                        *)
(*                                                                         *)
(* Node runs every callback to its next `await` without interruption, so   *)
(* one action is one such run.  An `await prisma...` is one action: the    *)
(* store executes the operation and the handler continues up to its next   *)
(* await.  (Between the store's commit and the continuation only other     *)
(* callbacks can run; they touch the registry and the channels, never the  *)
(* store, so they commute with the commit.)  Where the continuation reads  *)
(* the clock (new Date()) it is an action of its own, since time passes    *)
(* between the commit and the continuation.                                *)
(***************************************************************************)
EXTENDS Integers, Sequences, FiniteSets, TLC

\* ---------------------------------------------------------------- bounds
NUsers == 2
NConn == 2
MaxEvents == 2
MaxReq == 2
MaxTime == 1
MaxPosts == 1
\* At most MaxOps external inputs (handshakes, requests, inbound frames) in all.
MaxOps == 3

\* User identifiers.  The integer order stands for the string order that
\* Array.prototype.sort() uses on the identifiers.
Users == 1..NUsers
Conns == 1..NConn

\* `undefined`: an absent JSON field, an absent Map entry, an unset local.
Undefined == 0

\* ------------------------------------------------------------ handshake
\* A handshake token: absent, or a token carrying a userId claim whose
\* signature verifies (valid) or not (forged, expired, wrong secret).
NoToken == [present |-> FALSE, valid |-> FALSE, userId |-> Undefined]
Tokens == {NoToken} \cup [present : {TRUE}, valid : BOOLEAN, userId : Users]

\* A verification that decodes the payload without checking the signature.
JwtDecodeOnly(tok) == [threw |-> FALSE, userId |-> tok.userId]

\* jwt.verify(token, secret): the decoded payload, or a throw.
JwtVerify(tok) ==
    IF tok.valid THEN [threw |-> FALSE, userId |-> tok.userId]
                 ELSE [threw |-> TRUE, userId |-> Undefined]

VARIABLES
    readyState,     \* per connection: "NEW" (not yet opened), "OPEN", "CLOSED"
    token,          \* per connection: the token its handshake presented
    wsUserId,       \* per connection: ws.userId
    closeReason,    \* per connection: reason of a server-side ws.close(1008, reason)
    clients,        \* the registry: userId -> connection, or Undefined
    conversations,  \* conversation table, rows in insertion order
    messages,       \* message table, rows in insertion order
    now,            \* the clock behind now() and new Date()
    tasks,          \* invocations of the 'message' handler, in arrival order; pc is
                    \* the await it is suspended at ("create", "update"; "stamp"
                    \* when the insert is done and it has not resumed) or how it
                    \* returned: "done" (after the acknowledgment), "caught" (from
                    \* the catch block), "skipped" (type was not chat_message)
    reqs,           \* invocations of POST /conversation, in arrival order
    posts,          \* invocations of POST /message, in arrival order
    outbox          \* per connection: the frames written to its channel

vars == <<readyState, token, wsUserId, closeReason, clients, conversations,
          messages, now, tasks, reqs, posts, outbox>>

connVars == <<readyState, token, wsUserId, closeReason, clients>>
storeVars == <<conversations, messages>>

\* The store outlives the process: at start the conversation table is empty
\* or holds the row an earlier run created for the users 1 and 2.
FirstConversation == [id |-> 1, user1Id |-> 1, user2Id |-> 2, updatedAt |-> 0]

Init ==
    /\ readyState = [c \in Conns |-> "NEW"]
    /\ token = [c \in Conns |-> NoToken]
    /\ wsUserId = [c \in Conns |-> Undefined]
    /\ closeReason = [c \in Conns |-> ""]
    /\ clients = [u \in Users |-> Undefined]
    /\ conversations \in {<<>>, <<FirstConversation>>}
    /\ messages = <<>>
    /\ now = 0
    /\ tasks = <<>>
    /\ reqs = <<>>
    /\ posts = <<>>
    /\ outbox = [c \in Conns |-> <<>>]

\* The number of external inputs taken so far.
Ops ==
    Cardinality({c \in Conns : readyState[c] # "NEW"})
      + Len(reqs) + Len(posts) + Len(tasks)

\* Time passes.
Tick ==
    /\ now < MaxTime
    /\ now' = now + 1
    /\ UNCHANGED <<connVars, storeVars, tasks, reqs, posts, outbox>>

\* ------------------------------------------------------------- registry
\* A registration that keeps an entry the user already has.
RegisterIfAbsent(reg, u, c) == IF reg[u] = Undefined THEN [reg EXCEPT ![u] = c] ELSE reg

\* clients.set(decoded.userId, ws): stores or overwrites the user's entry.
Register(reg, u, c) == [reg EXCEPT ![u] = c]

\* A close handler that leaves the registry alone.
KeepEntry(reg, u) == reg

\* clients.delete(ws.userId): removes the user's entry, whichever channel it
\* holds.
Unregister(reg, u) == [reg EXCEPT ![u] = Undefined]

\* A channel that still emits 'message' after its close, once authenticated.
EmitsAfterClose(c) == wsUserId[c] # Undefined

\* ws emits 'message' on a channel only while it is open; the handler is
\* attached (line 38) only on an authenticated connection, which is open.
EmitsMessage(c) == readyState[c] = "OPEN"

\* wss.on('connection'): the whole handler is synchronous.
Connection(c, tok) ==
    /\ readyState[c] = "NEW"
    /\ Ops < MaxOps
    /\ token' = [token EXCEPT ![c] = tok]
    /\ IF ~tok.present
       THEN \* no token: ws.close(1008, 'No token provided'); return
            /\ readyState' = [readyState EXCEPT ![c] = "CLOSED"]
            /\ closeReason' = [closeReason EXCEPT ![c] = "No token provided"]
            /\ UNCHANGED <<wsUserId, clients>>
       ELSE LET decoded == JwtVerify(tok) IN
            IF decoded.threw
            THEN \* catch: ws.close(1008, 'Invalid token')
                 /\ readyState' = [readyState EXCEPT ![c] = "CLOSED"]
                 /\ closeReason' = [closeReason EXCEPT ![c] = "Invalid token"]
                 /\ UNCHANGED <<wsUserId, clients>>
            ELSE /\ readyState' = [readyState EXCEPT ![c] = "OPEN"]
                 /\ wsUserId' = [wsUserId EXCEPT ![c] = decoded.userId]
                 /\ clients' = Register(clients, decoded.userId, c)
                 /\ UNCHANGED closeReason
    /\ UNCHANGED <<storeVars, now, tasks, reqs, posts, outbox>>

\* ws.on('close'): the channel of an authenticated connection closes.
Close(c) ==
    /\ readyState[c] = "OPEN"
    /\ readyState' = [readyState EXCEPT ![c] = "CLOSED"]
    /\ clients' = IF wsUserId[c] # Undefined
                  THEN Unregister(clients, wsUserId[c])
                  ELSE clients
    /\ UNCHANGED <<token, wsUserId, closeReason, storeVars, now, tasks, reqs, posts, outbox>>

\* ------------------------------------------------------------ the store
\* The identifiers of the conversations in the store.
ConvIds(convs) == {convs[i].id : i \in 1..Len(convs)}

\* The pair as given, caller first.
UnsortedPair(a, b) == <<a, b>>

\* [req.userId, otherUserId].sort(): the canonical pair.
SortPair(a, b) == IF a <= b THEN <<a, b>> ELSE <<b, a>>

\* prisma.conversation.findUnique({where: {user1Id_user2Id}}): the id of the
\* row of that pair, or Undefined (null).
FindByPair(convs, u1, u2) ==
    LET hit == {i \in 1..Len(convs) : convs[i].user1Id = u1 /\ convs[i].user2Id = u2}
    IN IF hit = {} THEN Undefined ELSE convs[CHOOSE i \in hit : TRUE].id

\* The compound unique index user1Id_user2Id that findUnique's `where`
\* names: an insert of a pair that already has a row is rejected.
UniqueViolation(convs, u1, u2) == FindByPair(convs, u1, u2) # Undefined

\* prisma.conversation.update({where: {id}, data: {updatedAt}}).
TouchConversation(convs, cid, t) ==
    [i \in 1..Len(convs) |->
        IF convs[i].id = cid THEN [convs[i] EXCEPT !.updatedAt = t] ELSE convs[i]]

\* The rows of a conversation as GET /messages/:conversationId lists them:
\* where conversationId, orderBy createdAt asc (ties in insertion order).
RECURSIVE InsertByCreatedAt(_, _)
InsertByCreatedAt(sorted, m) ==
    IF sorted = <<>> THEN <<m>>
    ELSE IF sorted[Len(sorted)].createdAt <= m.createdAt THEN Append(sorted, m)
    ELSE Append(InsertByCreatedAt(SubSeq(sorted, 1, Len(sorted) - 1), m),
                sorted[Len(sorted)])

RECURSIVE SortByCreatedAt(_)
SortByCreatedAt(rows) ==
    IF rows = <<>> THEN <<>>
    ELSE InsertByCreatedAt(SortByCreatedAt(SubSeq(rows, 1, Len(rows) - 1)),
                           rows[Len(rows)])

MessagesOf(msgs, cid) ==
    SortByCreatedAt(SelectSeq(msgs, LAMBDA m : m.conversationId = cid))

\* ------------------------------------------- POST /api/chat/conversation
\* The request arrives: validation and the canonical pair (lines 11-18).
PostConversation(u, o) ==
    /\ Len(reqs) < MaxReq
    /\ Ops < MaxOps
    /\ reqs' = Append(reqs,
         IF o = Undefined
         THEN [userId |-> u, otherUserId |-> o, user1Id |-> Undefined,
               user2Id |-> Undefined, pc |-> "done", status |-> 400,
               convId |-> Undefined]
         ELSE [userId |-> u, otherUserId |-> o, user1Id |-> SortPair(u, o)[1],
               user2Id |-> SortPair(u, o)[2], pc |-> "find", status |-> 0,
               convId |-> Undefined])
    /\ UNCHANGED <<connVars, storeVars, now, tasks, posts, outbox>>

\* await prisma.conversation.findUnique(...) returns (lines 21-50).
ConversationFind(r) ==
    /\ reqs[r].pc = "find"
    /\ LET found == FindByPair(conversations, reqs[r].user1Id, reqs[r].user2Id) IN
       reqs' = [reqs EXCEPT ![r] =
                  IF found # Undefined
                  THEN [@ EXCEPT !.pc = "done", !.status = 200, !.convId = found]
                  ELSE [@ EXCEPT !.pc = "create"]]
    /\ UNCHANGED <<connVars, storeVars, now, tasks, posts, outbox>>

\* await prisma.conversation.create(...) returns or throws (lines 51-80).
ConversationCreate(r) ==
    /\ reqs[r].pc = "create"
    /\ IF UniqueViolation(conversations, reqs[r].user1Id, reqs[r].user2Id)
       THEN \* catch: res.status(500)
            /\ reqs' = [reqs EXCEPT ![r] = [@ EXCEPT !.pc = "done", !.status = 500]]
            /\ UNCHANGED conversations
       ELSE LET id == Len(conversations) + 1 IN
            /\ conversations' = Append(conversations,
                 [id |-> id, user1Id |-> reqs[r].user1Id,
                  user2Id |-> reqs[r].user2Id, updatedAt |-> now])
            /\ reqs' = [reqs EXCEPT ![r] =
                          [@ EXCEPT !.pc = "done", !.status = 200, !.convId = id]]
    /\ UNCHANGED <<connVars, messages, now, tasks, posts, outbox>>

\* ------------------------------------------------- ws.on('message', ...)
\* Message texts.
Texts == {1}

\* ws.send(frame): written to the channel while it is open, dropped after.
Send(ob, c, frame) ==
    IF readyState[c] = "OPEN" THEN [ob EXCEPT ![c] = Append(@, frame)] ELSE ob

\* The frames.  `message` is the id of the persisted record the frame
\* carries; `re` is the arrival number of the inbound event it answers.
ErrorFrame(t) == [type |-> "error", message |-> Undefined, re |-> t]
MessageSentFrame(t, m) == [type |-> "message_sent", message |-> m, re |-> t]
NewMessageFrame(t, m) == [type |-> "new_message", message |-> m, re |-> t]

\* A catch block that only logs.
CatchSilently(ob, c, t) == ob

\* catch (error): ws.send({type: 'error', ...}) (lines 85-91).
CatchError(ob, c, t) == Send(ob, c, ErrorFrame(t))

\* Lines 70-77: push to the receiver if it is registered and open.
PushToReceiver(ob, receiverId, t, m) ==
    LET receiverWs == clients[receiverId] IN
    IF receiverWs # Undefined /\ readyState[receiverWs] = "OPEN"
    THEN Send(ob, receiverWs, NewMessageFrame(t, m))
    ELSE ob

\* What prisma.message.create accepts: the required columns are given.
MessageDataValid(ev) ==
    /\ ev.content # Undefined
    /\ ev.receiverId # Undefined
    /\ ev.conversationId # Undefined

\* A sender taken from the payload.
SenderFromPayload(ev) == ev.senderId

\* senderId: ws.userId! (line 49), whatever the payload says.
SenderOf(ev) == wsUserId[ev.conn]

\* An inbound frame arrives on an authenticated open connection: JSON.parse
\* and the type test (lines 38-46), up to the first await.  The payload may
\* carry a senderId of its own (sid: absent, or a user other than the
\* connection's), which the handler does not read.
Receive(c, type, cid, content, rid, sid) ==
    /\ EmitsMessage(c)
    /\ Len(tasks) < MaxEvents
    /\ Ops < MaxOps
    /\ LET t == Len(tasks) + 1
           ev == [conn |-> c, type |-> type, conversationId |-> cid,
                  content |-> content, receiverId |-> rid, senderId |-> sid,
                  saved |-> Undefined, updatedAt |-> Undefined]
       IN
       CASE type = "unparseable" ->
              \* JSON.parse throws (or the payload is null): catch
              /\ tasks' = Append(tasks, ev @@ [pc |-> "caught"])
              /\ outbox' = CatchError(outbox, c, t)
         [] type = "chat_message" ->
              /\ tasks' = Append(tasks, ev @@ [pc |-> "create"])
              /\ UNCHANGED outbox
         [] OTHER ->
              \* any other type: the handler returns without a word
              /\ tasks' = Append(tasks, ev @@ [pc |-> "skipped"])
              /\ UNCHANGED outbox
    /\ UNCHANGED <<connVars, storeVars, now, reqs, posts>>

\* await prisma.message.create(...) returns or throws (lines 46-62).
\* `ok` is whether the store carries out a valid insert.
MessageCreate(t, ok) ==
    /\ tasks[t].pc = "create"
    /\ IF MessageDataValid(tasks[t]) /\ ok
       THEN LET id == Len(messages) + 1 IN
            /\ messages' = Append(messages,
                 [id |-> id, content |-> tasks[t].content,
                  senderId |-> SenderOf(tasks[t]),
                  receiverId |-> tasks[t].receiverId,
                  conversationId |-> tasks[t].conversationId,
                  createdAt |-> now])
            /\ tasks' = [tasks EXCEPT ![t] = [@ EXCEPT !.pc = "stamp", !.saved = id]]
            /\ UNCHANGED outbox
       ELSE /\ tasks' = [tasks EXCEPT ![t] = [@ EXCEPT !.pc = "caught"]]
            /\ outbox' = CatchError(outbox, tasks[t].conn, t)
            /\ UNCHANGED messages
    /\ UNCHANGED <<connVars, conversations, now, reqs, posts>>

\* The handler resumes with savedMessage and builds the update: new Date()
\* is read here, before the store carries the update out (lines 64-68).
StampUpdate(t) ==
    /\ tasks[t].pc = "stamp"
    /\ tasks' = [tasks EXCEPT ![t] = [@ EXCEPT !.pc = "update", !.updatedAt = now]]
    /\ UNCHANGED <<connVars, storeVars, now, reqs, posts, outbox>>

\* A handler whose catch block also closes the sender's socket and drops
\* its registry entry.
ConversationUpdateClosing(t, ok) ==
    /\ tasks[t].pc = "update"
    /\ IF ok
       THEN /\ tasks' = [tasks EXCEPT ![t] = [@ EXCEPT !.pc = "done"]]
            /\ conversations' =
                 TouchConversation(conversations, tasks[t].conversationId,
                                   tasks[t].updatedAt)
            /\ outbox' = Send(PushToReceiver(outbox, tasks[t].receiverId, t, tasks[t].saved),
                              tasks[t].conn, MessageSentFrame(t, tasks[t].saved))
            /\ UNCHANGED connVars
       ELSE /\ tasks' = [tasks EXCEPT ![t] = [@ EXCEPT !.pc = "caught"]]
            /\ outbox' = CatchError(outbox, tasks[t].conn, t)
            /\ readyState' = [readyState EXCEPT ![tasks[t].conn] = "CLOSED"]
            /\ clients' = Unregister(clients, wsUserId[tasks[t].conn])
            /\ UNCHANGED <<conversations, token, wsUserId, closeReason>>
    /\ UNCHANGED <<messages, now, reqs, posts>>

\* await prisma.conversation.update(...) returns or throws, then the push
\* to the receiver and the acknowledgment (lines 64-91).
ConversationUpdate(t, ok) ==
    /\ tasks[t].pc = "update"
    /\ IF ok
       THEN /\ tasks' = [tasks EXCEPT ![t] = [@ EXCEPT !.pc = "done"]]
            /\ conversations' =
                 TouchConversation(conversations, tasks[t].conversationId,
                                   tasks[t].updatedAt)
            /\ outbox' = Send(PushToReceiver(outbox, tasks[t].receiverId, t, tasks[t].saved),
                              tasks[t].conn, MessageSentFrame(t, tasks[t].saved))
       ELSE /\ tasks' = [tasks EXCEPT ![t] = [@ EXCEPT !.pc = "caught"]]
            /\ outbox' = CatchError(outbox, tasks[t].conn, t)
            /\ UNCHANGED conversations
    /\ UNCHANGED <<connVars, messages, now, reqs, posts>>

\* ------------------------------------------------ POST /api/chat/message
\* prisma.conversation.findUnique({where: {id}}): the row, as a set of rows
\* (empty when there is none).
FindById(convs, cid) == {convs[i] : i \in {j \in 1..Len(convs) : convs[j].id = cid}}

\* conversation.user1Id !== req.userId && conversation.user2Id !== req.userId
NotParticipant(conv, u) == conv.user1Id # u /\ conv.user2Id # u

\* The request arrives: the presence test of the three fields (lines 167-171).
PostMessage(u, cid, content, rid) ==
    /\ Len(posts) < MaxPosts
    /\ Ops < MaxOps
    /\ LET req == [userId |-> u, conversationId |-> cid, content |-> content,
                   receiverId |-> rid, saved |-> Undefined, updatedAt |-> Undefined]
       IN posts' = Append(posts,
            IF cid = Undefined \/ content = Undefined \/ rid = Undefined
            THEN req @@ [pc |-> "done", status |-> 400]
            ELSE req @@ [pc |-> "find", status |-> 0])
    /\ UNCHANGED <<connVars, storeVars, now, tasks, reqs, outbox>>

\* await prisma.conversation.findUnique(...) returns: the existence and
\* participant tests (lines 173-184).
PostFind(p) ==
    /\ posts[p].pc = "find"
    /\ LET found == FindById(conversations, posts[p].conversationId) IN
       posts' = [posts EXCEPT ![p] =
          IF found = {} THEN [@ EXCEPT !.pc = "done", !.status = 404]
          ELSE IF \E conv \in found : NotParticipant(conv, posts[p].userId)
               THEN [@ EXCEPT !.pc = "done", !.status = 403]
               ELSE [@ EXCEPT !.pc = "create"]]
    /\ UNCHANGED <<connVars, storeVars, now, tasks, reqs, outbox>>

\* await prisma.message.create(...) returns or throws (lines 186-202, 211-214).
PostCreate(p, ok) ==
    /\ posts[p].pc = "create"
    /\ IF ok
       THEN LET id == Len(messages) + 1 IN
            /\ messages' = Append(messages,
                 [id |-> id, content |-> posts[p].content,
                  senderId |-> posts[p].userId,
                  receiverId |-> posts[p].receiverId,
                  conversationId |-> posts[p].conversationId,
                  createdAt |-> now])
            /\ posts' = [posts EXCEPT ![p] = [@ EXCEPT !.pc = "stamp", !.saved = id]]
       ELSE /\ posts' = [posts EXCEPT ![p] = [@ EXCEPT !.pc = "done", !.status = 500]]
            /\ UNCHANGED messages
    /\ UNCHANGED <<connVars, conversations, now, tasks, reqs, outbox>>

\* The route resumes and builds the update: new Date() is read (lines 204-208).
PostStamp(p) ==
    /\ posts[p].pc = "stamp"
    /\ posts' = [posts EXCEPT ![p] = [@ EXCEPT !.pc = "update", !.updatedAt = now]]
    /\ UNCHANGED <<connVars, storeVars, now, tasks, reqs, outbox>>

\* await prisma.conversation.update(...) returns or throws (lines 205-214).
PostUpdate(p, ok) ==
    /\ posts[p].pc = "update"
    /\ IF ok
       THEN /\ conversations' =
                 TouchConversation(conversations, posts[p].conversationId,
                                   posts[p].updatedAt)
            /\ posts' = [posts EXCEPT ![p] = [@ EXCEPT !.pc = "done", !.status = 201]]
       ELSE /\ posts' = [posts EXCEPT ![p] = [@ EXCEPT !.pc = "done", !.status = 500]]
            /\ UNCHANGED conversations
    /\ UNCHANGED <<connVars, messages, now, tasks, reqs, outbox>>

Next ==
    \/ Tick
    \/ \E c \in Conns, tok \in Tokens : Connection(c, tok)
    \/ \E c \in Conns : Close(c)
    \/ \E u \in Users, o \in Users \cup {Undefined} : PostConversation(u, o)
    \/ \E r \in 1..Len(reqs) : ConversationFind(r)
    \/ \E r \in 1..Len(reqs) : ConversationCreate(r)
    \/ \E u \in Users, cid \in ConvIds(conversations) \cup {Undefined},
          content \in Texts \cup {Undefined}, rid \in Users \cup {Undefined} :
          PostMessage(u, cid, content, rid)
    \/ \E p \in 1..Len(posts) : PostFind(p)
    \/ \E p \in 1..Len(posts), ok \in BOOLEAN : PostCreate(p, ok)
    \/ \E p \in 1..Len(posts) : PostStamp(p)
    \/ \E p \in 1..Len(posts), ok \in BOOLEAN : PostUpdate(p, ok)
    \/ \E c \in Conns :
          Receive(c, "unparseable", Undefined, Undefined, Undefined, Undefined)
    \/ \E c \in Conns :
          Receive(c, "other", Undefined, Undefined, Undefined, Undefined)
    \/ \E c \in Conns, cid \in ConvIds(conversations) \cup {Undefined},
          content \in Texts \cup {Undefined}, rid \in Users \cup {Undefined} :
          \E sid \in (Users \ {wsUserId[c]}) \cup {Undefined} :
             Receive(c, "chat_message", cid, content, rid, sid)
    \/ \E t \in 1..Len(tasks), ok \in BOOLEAN : MessageCreate(t, ok)
    \/ \E t \in 1..Len(tasks) : StampUpdate(t)
    \/ \E t \in 1..Len(tasks), ok \in BOOLEAN : ConversationUpdate(t, ok)

Spec == Init /\ [][Next]_vars

\* ================================================================ claims
\* Frames of one type answering inbound event t in a channel's outbox.
FramesOf(ob, c, type, t) ==
    {i \in 1..Len(ob[c]) : ob[c][i].type = type /\ ob[c][i].re = t}

\* The conversation table has a row of the unordered pair {a, b}.
PairRows(a, b) ==
    {i \in 1..Len(conversations) :
        {conversations[i].user1Id, conversations[i].user2Id} = {a, b}}

\* C1: when a connection closes that is not the one registered for a user,
\* the open connection registered for that user stays registered: a close of
\* the superseded connection A1 does not remove A2's entry.
C1_StaleCloseKeepsNewer ==
    [][\A c \in Conns :
         (readyState[c] = "OPEN" /\ readyState'[c] = "CLOSED") =>
            \A u \in Users :
               (clients[u] # Undefined /\ clients[u] # c) => clients'[u] = clients[u]]_vars

\* C2: the conversation table never holds two rows of the same unordered
\* user pair, whatever the interleaving of get-or-create calls.
C2_OneConversationPerPair ==
    \A i, j \in 1..Len(conversations) :
        {conversations[i].user1Id, conversations[i].user2Id}
          = {conversations[j].user1Id, conversations[j].user2Id} => i = j

\* Two calls for one pair, from both sides, both read before either wrote;
\* both have returned and the table holds the pair's row.
C2_Witness ==
    \E r1, r2 \in 1..Len(reqs) :
        /\ reqs[r1].userId = 1 /\ reqs[r1].otherUserId = 2
        /\ reqs[r2].userId = 2 /\ reqs[r2].otherUserId = 1
        /\ reqs[r1].pc = "done" /\ reqs[r2].pc = "done"
        /\ 500 \in {reqs[r1].status, reqs[r2].status}
        /\ Cardinality(PairRows(1, 2)) = 1

\* C3: two get-or-create calls for the same canonical pair that have both
\* completed have both succeeded and returned the same conversation id.
C3_ConcurrentCallsBothSucceed ==
    \A r1, r2 \in 1..Len(reqs) :
        (/\ r1 # r2
         /\ reqs[r1].otherUserId # Undefined /\ reqs[r2].otherUserId # Undefined
         /\ reqs[r1].user1Id = reqs[r2].user1Id /\ reqs[r1].user2Id = reqs[r2].user2Id
         /\ reqs[r1].pc = "done" /\ reqs[r2].pc = "done")
        => /\ reqs[r1].status = 200 /\ reqs[r2].status = 200
           /\ reqs[r1].convId = reqs[r2].convId

\* C4: messages of events that arrived on one connection for one
\* conversation are persisted in the order the events arrived.
C4_PersistedInArrivalOrder ==
    \A t1, t2 \in 1..Len(tasks) :
        (/\ t1 < t2
         /\ tasks[t1].conn = tasks[t2].conn
         /\ tasks[t1].conversationId = tasks[t2].conversationId
         /\ tasks[t1].saved # Undefined /\ tasks[t2].saved # Undefined)
        => tasks[t1].saved < tasks[t2].saved

\* C5: a connection never has two inbound events in processing at once.
C5_OneEventInProcessing ==
    \A t1, t2 \in 1..Len(tasks) :
        (t1 # t2 /\ tasks[t1].conn = tasks[t2].conn)
        => ~(/\ tasks[t1].pc \in {"create", "stamp", "update"}
             /\ tasks[t2].pc \in {"create", "stamp", "update"})

\* C6: when the handler of an event whose message was persisted returns, the
\* receiver's channel, if registered and open, has got exactly one
\* new_message carrying that message and no other channel has; if the
\* receiver is not registered no channel has one; and the message is in the
\* conversation's history.
C6_DeliveryMatchesRegistration ==
    [][\A t \in 1..Len(tasks) :
         (/\ tasks[t].saved # Undefined
          /\ tasks[t].pc = "update"
          /\ tasks'[t].pc \in {"done", "caught"}) =>
            LET receiverWs == clients[tasks[t].receiverId]
                reachable == receiverWs # Undefined /\ readyState[receiverWs] = "OPEN"
                pushes(c) ==
                    {i \in FramesOf(outbox', c, "new_message", t) :
                        outbox'[c][i].message = tasks[t].saved}
                history == MessagesOf(messages', tasks[t].conversationId)
            IN /\ \A c \in Conns :
                    Cardinality(pushes(c)) = IF reachable /\ c = receiverWs THEN 1 ELSE 0
               /\ \E i \in 1..Len(history) : history[i].id = tasks[t].saved]_vars

\* C7: when a store write fails while a chat_message event with all its
\* fields is processed, the sender is sent an error acknowledgment and
\* nothing else is left behind: no message row of the event, the
\* conversation table as it was, no frame to anyone else.
C7_FailedWriteLeavesNothing ==
    [][\A t \in 1..Len(tasks) :
         (/\ tasks[t].pc \in {"create", "update"}
          /\ tasks[t].content # Undefined
          /\ tasks[t].conversationId # Undefined
          /\ tasks[t].receiverId # Undefined
          /\ tasks'[t].pc = "caught") =>
            /\ outbox' = Send(outbox, tasks[t].conn, ErrorFrame(t))
            /\ conversations' = conversations
            /\ \A i \in 1..Len(messages') : messages'[i].id # tasks'[t].saved]_vars

\* C8: the handler of a chat_message event that lacks content,
\* conversationId or receiverId returns from its catch block having sent an
\* error acknowledgment to the sender and nothing to anyone else, with the
\* message table and the conversation table (timestamps included) as before.
C8_MissingFieldRejected ==
    [][\A t \in 1..Len(tasks) :
         (/\ tasks[t].type = "chat_message"
          /\ \/ tasks[t].content = Undefined
             \/ tasks[t].conversationId = Undefined
             \/ tasks[t].receiverId = Undefined
          /\ tasks'[t] # tasks[t]) =>
            /\ tasks'[t].pc = "caught"
            /\ tasks'[t].saved = Undefined
            /\ outbox' = Send(outbox, tasks[t].conn, ErrorFrame(t))
            /\ messages' = messages
            /\ conversations' = conversations]_vars

\* An event without content into an existing conversation that already has
\* a message was answered with an error frame; the conversation still has
\* that one message.
C8_Witness ==
    \E t \in 1..Len(tasks) :
        /\ tasks[t].type = "chat_message"
        /\ tasks[t].content = Undefined
        /\ tasks[t].conversationId # Undefined /\ tasks[t].receiverId # Undefined
        /\ tasks[t].pc = "caught"
        /\ FramesOf(outbox, tasks[t].conn, "error", t) # {}
        /\ Len(MessagesOf(messages, tasks[t].conversationId)) = 1

\* C9: every inbound event that is unparseable or of a type other than
\* chat_message has, once its handler returned, an error acknowledgment in
\* the sender's channel.
C9_MalformedGetsError ==
    \A t \in 1..Len(tasks) :
        (tasks[t].type # "chat_message" /\ tasks[t].pc \in {"done", "caught", "skipped"})
        => FramesOf(outbox, tasks[t].conn, "error", t) # {}

\* C10: a connection whose handshake had no token, or a token that does not
\* verify, is closed with the reason of its case (the two reasons differ),
\* is in no registry entry, has no user identifier, and no inbound event of
\* it was ever handled.
C10_FailedHandshakeNeverActive ==
    \A c \in Conns :
        (readyState[c] # "NEW" /\ ~(token[c].present /\ token[c].valid)) =>
            /\ readyState[c] = "CLOSED"
            /\ closeReason[c] = IF token[c].present THEN "Invalid token"
                                                    ELSE "No token provided"
            /\ \A u \in Users : clients[u] # c
            /\ wsUserId[c] = Undefined
            /\ \A t \in 1..Len(tasks) : tasks[t].conn # c
            /\ outbox[c] = <<>>

\* One connection was refused for lack of a token and another for a forged
\* token naming a user that is registered on neither.
C10_Witness ==
    \E c1, c2 \in Conns :
        /\ readyState[c1] = "CLOSED" /\ ~token[c1].present
        /\ closeReason[c1] = "No token provided"
        /\ readyState[c2] = "CLOSED" /\ token[c2].present /\ ~token[c2].valid
        /\ closeReason[c2] = "Invalid token"
        /\ clients[token[c2].userId] = Undefined

\* The conversation rows a chat_message event or a send request names.
ConvOf(x) == FindById(conversations, x.conversationId)

\* The sends into conversation cid that are in flight, among the handler
\* invocations ts and the requests ps.
InFlight(ts, ps, cid) ==
    {t \in 1..Len(ts) :
        ts[t].conversationId = cid /\ ts[t].pc \in {"create", "stamp", "update"}}
    \cup {Len(ts) + p : p \in {q \in 1..Len(ps) :
        ps[q].conversationId = cid
        /\ ps[q].pc \in {"find", "create", "stamp", "update"}}}

\* C11: a send by a user who is not a participant of the conversation is
\* rejected and changes nothing, on the live connection (the handler returns
\* from its catch with only the error frame sent) and on POST /message (it
\* answers 403): no message row, no timestamp update, no delivery.
C11_NonParticipantRejected ==
    [][/\ \A t \in 1..Len(tasks) :
            (/\ tasks[t].type = "chat_message"
             /\ \E conv \in ConvOf(tasks[t]) : NotParticipant(conv, wsUserId[tasks[t].conn])
             /\ tasks'[t] # tasks[t]) =>
                /\ tasks'[t].pc = "caught"
                /\ messages' = messages
                /\ conversations' = conversations
                /\ outbox' = Send(outbox, tasks[t].conn, ErrorFrame(t))
       /\ \A p \in 1..Len(posts) :
            (/\ \E conv \in ConvOf(posts[p]) : NotParticipant(conv, posts[p].userId)
             /\ posts'[p] # posts[p]) =>
                /\ posts'[p].pc = "done" /\ posts'[p].status = 403
                /\ messages' = messages
                /\ conversations' = conversations
                /\ outbox' = outbox]_vars

\* Calls r1 and r2 of get-or-create are by two distinct users, each naming
\* the other.
Mirrored(rs, r1, r2) ==
    /\ rs[r1].otherUserId # Undefined
    /\ rs[r1].userId # rs[r1].otherUserId
    /\ rs[r2].userId = rs[r1].otherUserId
    /\ rs[r2].otherUserId = rs[r1].userId

\* C12: get-or-create by A with peer B and by B with peer A return the same
\* conversation id: two such calls that returned a conversation returned the
\* same one, and a call that looks the pair up after the mirrored call has
\* returned its conversation succeeds with that very id, from any state of
\* the store.
C12_SameIdEitherOrder ==
    [][\A r1, r2 \in 1..Len(reqs') :
         Mirrored(reqs', r1, r2) =>
            /\ (reqs'[r1].status = 200 /\ reqs'[r2].status = 200)
                  => reqs'[r1].convId = reqs'[r2].convId
            /\ (/\ r1 <= Len(reqs) /\ r2 <= Len(reqs)
                /\ reqs[r1].status = 200
                /\ reqs[r2].pc = "find" /\ reqs'[r2].pc # "find")
                  => /\ reqs'[r2].pc = "done" /\ reqs'[r2].status = 200
                     /\ reqs'[r2].convId = reqs[r1].convId]_vars

\* User 1 asked for the conversation with 2 and user 2 for the one with 1;
\* both calls returned the same conversation.
C12_Witness ==
    \E r1, r2 \in 1..Len(reqs) :
        /\ reqs[r1].userId = 1 /\ reqs[r1].otherUserId = 2
        /\ reqs[r2].userId = 2 /\ reqs[r2].otherUserId = 1
        /\ reqs[r1].status = 200 /\ reqs[r2].status = 200
        /\ reqs[r1].convId = reqs[r2].convId
        /\ reqs[r1].convId \in ConvIds(conversations)

\* C13: the registry entry of a user only ever changes to the connection
\* that registers in that step, or to absent, and a registering connection
\* always becomes its user's entry: an entry is the user's most recently
\* registered connection, never a superseded one.
C13_EntryIsLatestRegistered ==
    [][/\ \A u \in Users :
            clients'[u] # clients[u] =>
               \/ clients'[u] = Undefined
               \/ /\ readyState[clients'[u]] = "NEW"
                  /\ readyState'[clients'[u]] = "OPEN"
                  /\ wsUserId'[clients'[u]] = u
       /\ \A c \in Conns :
            (readyState[c] = "NEW" /\ readyState'[c] = "OPEN")
               => clients'[wsUserId'[c]] = c]_vars

\* Two open connections of one user: the registry holds one of them, the
\* other is superseded.
C13_Witness ==
    \E c1, c2 \in Conns :
        /\ c1 # c2
        /\ readyState[c1] = "OPEN" /\ readyState[c2] = "OPEN"
        /\ wsUserId[c1] = wsUserId[c2]
        /\ clients[wsUserId[c2]] = c2

\* C20: every connection in the registry is authenticated, open, and stored
\* under its own user identifier; no closed connection is in the registry.
C20_RegistryHoldsOpenOwnConnections ==
    \A u \in Users :
        clients[u] # Undefined =>
            /\ readyState[clients[u]] = "OPEN"
            /\ wsUserId[clients[u]] = u
            /\ token[clients[u]].present /\ token[clients[u]].valid

\* A user's first connection has closed and the user has reconnected: the
\* registry holds the new connection.
C20_Witness ==
    \E c1, c2 \in Conns :
        /\ readyState[c1] = "CLOSED" /\ wsUserId[c1] # Undefined
        /\ readyState[c2] = "OPEN" /\ wsUserId[c2] = wsUserId[c1]
        /\ clients[wsUserId[c2]] = c2

\* C14: a conversation's last-activity timestamp never moves backwards, and
\* whenever no send into the conversation is in flight it equals the
\* creation timestamp of the conversation's most recently persisted message.
C14_TimestampIsLastMessage ==
    [][\A i \in 1..Len(conversations) :
         LET cid == conversations[i].id
             history == MessagesOf(messages', cid)
         IN /\ conversations'[i].updatedAt >= conversations[i].updatedAt
            /\ (InFlight(tasks', posts', cid) = {} /\ history # <<>>)
                  => conversations'[i].updatedAt = history[Len(history)].createdAt]_vars

\* C15: no inbound event arrives on a channel that has closed; the close of
\* a channel leaves the handler invocations and the store as they are; and
\* an invocation whose channel has closed still can take, and takes, its
\* persistence steps: the insert writes its row and the update writes the
\* timestamp the handler read.
C15_CloseKeepsAcceptedEvents ==
    [][/\ Len(tasks') > Len(tasks)
            => readyState[tasks'[Len(tasks')].conn] = "OPEN"
       /\ \A c \in Conns :
            (readyState[c] = "OPEN" /\ readyState'[c] = "CLOSED")
               => tasks' = tasks /\ messages' = messages /\ conversations' = conversations
       /\ \A t \in 1..Len(tasks) :
            readyState[tasks[t].conn] = "CLOSED" =>
               /\ tasks[t].pc = "create" /\ MessageDataValid(tasks[t])
                     => ENABLED MessageCreate(t, TRUE)
               /\ tasks[t].pc = "stamp" => ENABLED StampUpdate(t)
               /\ tasks[t].pc = "update" => ENABLED ConversationUpdate(t, TRUE)
               /\ (tasks[t].pc = "create" /\ tasks'[t].pc = "stamp")
                     => /\ Len(messages') = Len(messages) + 1
                        /\ messages'[Len(messages')].id = tasks'[t].saved
               /\ (tasks[t].pc = "update" /\ tasks'[t].pc = "done")
                     => \A conv \in FindById(conversations', tasks[t].conversationId) :
                           conv.updatedAt = tasks[t].updatedAt]_vars

\* An event was accepted, its channel closed, and its handler ran to the
\* end: the row is in the store, and the acknowledgment found the channel
\* closed.
C15_Witness ==
    \E t \in 1..Len(tasks) :
        /\ readyState[tasks[t].conn] = "CLOSED"
        /\ tasks[t].pc = "done"
        /\ \E i \in 1..Len(messages) : messages[i].id = tasks[t].saved
        /\ FramesOf(outbox, tasks[t].conn, "message_sent", t) = {}

\* C16: a step of inbound-event processing (the arrival of a frame or a
\* step of its handler, the error paths included) leaves the registry and
\* every connection's state as they are, and writes frames to no channel
\* but the sender's and the one registered for the receiver.
C16_ProcessingKeepsConnections ==
    [][tasks' # tasks =>
         /\ clients' = clients
         /\ readyState' = readyState
         /\ wsUserId' = wsUserId
         /\ token' = token
         /\ closeReason' = closeReason
         /\ \A t \in 1..Len(tasks) : tasks'[t] # tasks[t] =>
              \A c \in Conns :
                 (c # tasks[t].conn
                    /\ (tasks[t].receiverId = Undefined \/ c # clients[tasks[t].receiverId]))
                    => outbox'[c] = outbox[c]]_vars

\* A handler returned from its catch block while its own connection and
\* another one are registered and open.
C16_Witness ==
    \E t \in 1..Len(tasks) : \E c \in Conns :
        /\ tasks[t].pc = "caught"
        /\ tasks[t].saved # Undefined
        /\ c # tasks[t].conn
        /\ readyState[c] = "OPEN" /\ clients[wsUserId[c]] = c
        /\ readyState[tasks[t].conn] = "OPEN"
        /\ clients[wsUserId[tasks[t].conn]] = tasks[t].conn

\* C17: the user id of a connection, once set at the handshake, never
\* changes, and the row a chat_message handler persists carries that id as
\* its sender whatever senderId the payload names.
C17_SenderIsConnectionUser ==
    [][/\ \A c \in Conns : wsUserId[c] # Undefined => wsUserId'[c] = wsUserId[c]
       /\ \A t \in 1..Len(tasks) :
            (tasks[t].pc = "create" /\ tasks'[t].pc = "stamp") =>
               /\ Len(messages') = Len(messages) + 1
               /\ messages'[Len(messages')].senderId = wsUserId[tasks[t].conn]]_vars

\* A row was persisted for an event whose payload names another user as
\* the sender.
C17_Witness ==
    \E t \in 1..Len(tasks) : \E i \in 1..Len(messages) :
        /\ tasks[t].saved = messages[i].id
        /\ tasks[t].senderId \in Users
        /\ tasks[t].senderId # wsUserId[tasks[t].conn]
        /\ messages[i].senderId = wsUserId[tasks[t].conn]

\* C18: when the handler of a chat_message event whose row was persisted
\* returns and the originating channel is open, that channel has been sent
\* exactly one message_sent frame carrying the persisted row and no error
\* frame for the event, and the row is still in the store, whether or not
\* the receiver was pushed to.
C18_PersistedIsAcknowledged ==
    [][\A t \in 1..Len(tasks) :
         (/\ tasks[t].pc = "update"
          /\ tasks'[t].pc # "update"
          /\ readyState[tasks[t].conn] = "OPEN") =>
             /\ Cardinality(FramesOf(outbox', tasks[t].conn, "message_sent", t)) = 1
             /\ \A i \in FramesOf(outbox', tasks[t].conn, "message_sent", t) :
                   outbox'[tasks[t].conn][i].message = tasks[t].saved
             /\ FramesOf(outbox', tasks[t].conn, "error", t) = {}
             /\ \E i \in 1..Len(messages') : messages'[i].id = tasks[t].saved]_vars

\* C19: every persisted message's sender and receiver are the two
\* participants of the conversation the message belongs to, whichever of
\* the live-connection send and POST /message persisted it.
C19_MessageBetweenParticipants ==
    \A i \in 1..Len(messages) :
        \A conv \in FindById(conversations, messages[i].conversationId) :
            {messages[i].senderId, messages[i].receiverId} = {conv.user1Id, conv.user2Id}
====
